---- MODULE Spec2Model ----
(***************************************************************************)
(* JobApply-AI-Bot: the content script (src/content.js), the page-load     *)
(* auto-apply script (src/unnamed/part_000) and the React popup            *)
(* (src/unnamed/part_001), as state machines.                              *)
(*                                                                         *)
(* JavaScript runs each callback to completion, so one action is one       *)
(* callback: from the event that starts it to the next suspension point    *)
(* (a timer, an awaited platform promise, a message round trip).           *)
(***************************************************************************)
EXTENDS Integers, Sequences, FiniteSets, TLC

\* ----------------------------------------------------------------- bounds
\* Number of requests the content-script listener receives in one page life.
MaxReq == 2
\* Number of firings of the content script's persistent observer.
MaxScrapes == 2
\* Length of the longest selector list handed to findElement.
MaxSelectors == 3
\* Length of the longest textContent handed to getSafeText.
MaxLen == 4
\* Number of apply operations started from the popup while it is open.
MaxOps == 2
\* The last day the clock reaches; days are numbered from 0.
MaxDay == 2

VARIABLES
    dom,            \* the live document: which buttons exist, and whether rendered
    pdfInitialized, \* content.js:7
    req,            \* one record per request delivered to the content-script listener
    storage,        \* chrome.storage.local as the page-load script reads it
    w,              \* the page-load script of part_000 and its single-shot watcher
    tab,            \* the active tab as the popup sees it
    pop,            \* the popup's React state and what its last render captured
    ops,            \* one record per run of onApply / onAutoApplyPage
    appState,       \* chrome.storage.local's appState
    cfg,            \* the popup's cfg state (part_001:106-114)
    view,           \* the popup's loading flag, the clock, and what hydration read
    doc,            \* the job posting's content: the elements the scraper reads, the URL
    wreq,           \* one record per extraction started by content.js's persistent observer
    arg,            \* the argument of a helper function applied on its own
    out             \* what that helper returned

contentVars == <<dom, pdfInitialized, req>>
watchVars == <<storage, w>>
popupVars == <<tab, pop, ops>>
cfgVars == <<appState, cfg, view>>
pageVars == <<doc, wreq>>
pureVars == <<arg, out>>
vars == <<dom, pdfInitialized, req, storage, w, tab, pop, ops, appState, cfg, view,
          doc, wreq, arg, out>>

\* ------------------------------------------------------------ the document
\* An element is absent, present but not rendered, or present and rendered.
ElemStates == {"absent", "hidden", "visible"}

\* document.querySelector over a selector list: content.js:68-74.  It returns
\* the element when any selector matches, whether or not it is rendered.
findElement(d, button) == IF d[button] = "absent" THEN "null" ELSE button

\* content.js:68-74 selector by selector.  qs[selector] is what
\* document.querySelector(selector) returns: a node, or "null".
Selectors == {"s1", "s2", "s3"}
Nodes == {"n1", "n2"}
QueryResults == [Selectors -> Nodes \cup {"null"}]

\* The loop of findElement without its early return: a later match replaces an
\* earlier one.
findElementIn_LastMatch(selectors, qs) ==
    LET hits == { i \in 1 .. Len(selectors) : qs[selectors[i]] # "null" }
    IN IF hits = {} THEN "null"
       ELSE qs[selectors[CHOOSE i \in hits : \A j \in hits : j <= i]]

\* content.js:69-73: for (const selector of selectors) { const element =
\* document.querySelector(selector); if (element) return element; } return null.
RECURSIVE findElementIn(_, _)
findElementIn(selectors, qs) ==
    IF selectors = <<>> THEN "null"
    ELSE IF qs[Head(selectors)] # "null" THEN qs[Head(selectors)]
    ELSE findElementIn(Tail(selectors), qs)

Req == 1 .. MaxReq

\* -------------------------------------------------------------- messages
\* A message carries `action` (what content.js reads) and `type` (what the
\* popup of part_001 writes); a key that is not set reads as "undefined".
Msg(a, t, f) == [action |-> a, type |-> t, file |-> f]

ActionMessages ==
    { Msg("getJobDetails", "undefined", "undefined"),
      Msg("applyToJob", "undefined", "undefined"),
      Msg("bogus", "undefined", "undefined") }
    \cup { Msg("processResume", "undefined", f) : f \in {"notBlob", "blob"} }

\* The payloads the popup sends: part_001:179 and part_001:197-201.
AutoApplyPayload == Msg("undefined", "AUTO_APPLY", "undefined")
BulkApplyPayload == Msg("undefined", "APPLY_TO_ALL_VISIBLE_JOBS", "undefined")

\* -------------------------------------------------------------------- text
\* A string is a sequence of characters.  \s of content.js:77 and trim() read
\* the same characters as white space.
Letters == {"a", "b"}
WhiteSpace == {" ", "\t", "\n"}
Chars == Letters \cup WhiteSpace
IsWs(c) == c \in WhiteSpace

\* String.prototype.trim: content.js:77.
RECURSIVE TrimStart(_)
TrimStart(s) ==
    IF s = <<>> THEN s
    ELSE IF IsWs(Head(s)) THEN TrimStart(Tail(s)) ELSE s

RECURSIVE TrimEnd(_)
TrimEnd(s) ==
    IF s = <<>> THEN s
    ELSE IF IsWs(s[Len(s)]) THEN TrimEnd(SubSeq(s, 1, Len(s) - 1)) ELSE s

Trim(s) == TrimEnd(TrimStart(s))

\* replace(/\s+/g, ' '): every maximal run of white space becomes one space.
RECURSIVE CollapseWs(_)
CollapseWs(s) ==
    IF s = <<>> THEN s
    ELSE IF IsWs(Head(s)) THEN <<" ">> \o CollapseWs(TrimStart(s))
    ELSE <<Head(s)>> \o CollapseWs(Tail(s))

\* What a locator hands to getSafeText: null, or an element and its textContent.
NoElement == [kind |-> "null", text |-> <<>>]
Elem(t) == [kind |-> "elem", text |-> t]

\* getSafeText with the white space collapsed but the ends left untrimmed.
getSafeText_NoTrim(element) ==
    IF element.kind = "null" THEN <<>> ELSE CollapseWs(element.text)

\* content.js:76-77: element?.textContent?.trim()?.replace(/\s+/g, ' ') || ''.
\* The optional chain yields undefined for null, and undefined || '' is ''.
getSafeText(element) ==
    IF element.kind = "null" THEN <<>> ELSE CollapseWs(Trim(element.text))

\* ------------------------------------------------------- the job posting
\* What scrapeJobDetails reads.  els[f] is what the lookup of content.js:96-108
\* for part f finds: "description" is findElement(SELECTORS.DESCRIPTION),
\* "details" and "skills" the two querySelector calls of lines 101-102.
Parts == {"title", "company", "location", "description", "details", "skills", "postedDate"}

\* Array.prototype.join('\n') over the three description parts: content.js:103.
JoinLines(a, b, c) == a \o <<"\n">> \o b \o <<"\n">> \o c

\* href.split('?')[0]: content.js:104.  Everything before the first '?'.
RECURSIVE BeforeQuery(_)
BeforeQuery(href) ==
    IF href = <<>> THEN href
    ELSE IF Head(href) = "?" THEN <<>>
    ELSE <<Head(href)>> \o BeforeQuery(Tail(href))

\* ScrapedDetails with the address taken whole, query string included.
ScrapedDetails_KeepQuery(page) ==
    [ title |-> getSafeText(page.els["title"]),
      company |-> getSafeText(page.els["company"]),
      location |-> getSafeText(page.els["location"]),
      description |-> JoinLines(getSafeText(page.els["description"]),
                                getSafeText(page.els["details"]),
                                getSafeText(page.els["skills"])),
      url |-> page.href,
      postedDate |-> getSafeText(page.els["postedDate"]) ]

\* content.js:95-109: the object scrapeJobDetails returns.  No call in the try
\* block throws on a document, so the catch of lines 110-113 is not taken.
ScrapedDetails(page) ==
    [ title |-> getSafeText(page.els["title"]),
      company |-> getSafeText(page.els["company"]),
      location |-> getSafeText(page.els["location"]),
      description |-> JoinLines(getSafeText(page.els["description"]),
                                getSafeText(page.els["details"]),
                                getSafeText(page.els["skills"])),
      url |-> BeforeQuery(page.href),
      postedDate |-> getSafeText(page.els["postedDate"]) ]

\* The textContent of each part as the page carries it, white space included.
RawText(f) ==
    CASE f = "title"       -> <<" ", "a", "\t", "\n", "b", " ">>
      [] f = "company"     -> <<"b", " ", " ", "a">>
      [] f = "location"    -> <<"\n", "a">>
      [] f = "description" -> <<"a", " ", "\n">>
      [] f = "details"     -> <<"b", "\t">>
      [] f = "skills"      -> <<" ", "b", "b">>
      [] f = "postedDate"  -> <<"b", " ", " ">>

\* The description once the page has expanded it.
ExpandedText == <<"a", " ", "\n", "a", "b", "\n", "\n", "b">>

\* The page's address, without a query string or with one that holds a
\* second '?'.
Hrefs == { <<"u", "v">>, <<"u", "?", "q", "?", "v">> }

\* The postings: each part is in the document or not.
Pages ==
    { [els |-> [f \in Parts |-> IF f \in present THEN Elem(RawText(f)) ELSE NoElement],
       href |-> h] : present \in SUBSET Parts, h \in Hrefs }

\* A posting none of whose parts is in the document.
EmptyPage == [els |-> [f \in Parts |-> NoElement], href |-> <<"u">>]

\* ---------------------------------------------------------------- results
NoResult == [kind |-> "none", error |-> ""]
Err(m) == [kind |-> "error", error |-> m]
Success == [kind |-> "success", error |-> ""]
ResumeText == [kind |-> "text", error |-> ""]
JobRecord == [kind |-> "job", error |-> "", details |-> ScrapedDetails(doc)]

\* content.js:197: handleRequest().then(sendResponse).  The promise reaction is
\* a microtask of the turn that settles handleRequest's promise, so the response
\* is sent in that same turn.
Answer(q, res) == [q EXCEPT !.result = res, !.nResp = @ + 1, !.st = "responded"]

\* A request before it is delivered.
NoMsg == Msg("undefined", "undefined", "undefined")

FreshReq ==
    [ st |-> "none", msg |-> NoMsg, result |-> NoResult, nResp |-> 0,
      locApply |-> 0, clkApply |-> 0, locSubmit |-> 0, clkSubmit |-> 0,
      locSeeMore |-> 0, clkSeeMore |-> 0,
      waited |-> FALSE, sawSubmit |-> FALSE, viaPopup |-> FALSE,
      hiddenClicks |-> 0, duringApply |-> FALSE, unanswered |-> FALSE ]

\* 1 when a click lands on an element that is in the document but not rendered.
Unrendered(d, button) == IF d[button] = "hidden" THEN 1 ELSE 0

Buttons == {"apply", "submit", "seeMore"}

ContentIdle ==
    /\ pdfInitialized = FALSE
    /\ req = [ r \in Req |-> FreshReq ]

\* ------------------------------------------------- handleApplication
\* HAStart without the early return of content.js:119: click() on null throws
\* and the catch of content.js:132-135 answers.
HAStart_NoNullCheck(d, q) ==
    IF findElement(d, "apply") = "null"
    THEN Answer([q EXCEPT !.locApply = @ + 1], Err("Application process failed"))
    ELSE [q EXCEPT !.locApply = @ + 1,
                   !.clkApply = @ + 1,
                   !.hiddenClicks = @ + Unrendered(d, "apply"),
                   !.sawSubmit = (d["submit"] # "absent"),
                   !.st = "applyWait"]

\* HAStart with the apply click made optional and no early return: the run goes
\* on to the wait and the submit button although nothing was clicked.
HAStart_FallThrough(d, q) ==
    IF findElement(d, "apply") = "null"
    THEN [q EXCEPT !.locApply = @ + 1,
                   !.sawSubmit = (d["submit"] # "absent"),
                   !.st = "applyWait"]
    ELSE [q EXCEPT !.locApply = @ + 1,
                   !.clkApply = @ + 1,
                   !.hiddenClicks = @ + Unrendered(d, "apply"),
                   !.sawSubmit = (d["submit"] # "absent"),
                   !.st = "applyWait"]

\* content.js:118-124: the synchronous prefix of handleApplication, up to the
\* 2000 ms timer.  One locate of the apply button; none found ends the run.
HAStart(d, q) ==
    IF findElement(d, "apply") = "null"
    THEN Answer([q EXCEPT !.locApply = @ + 1], Err("Apply button not found"))
    ELSE [q EXCEPT !.locApply = @ + 1,
                   !.clkApply = @ + 1,
                   !.hiddenClicks = @ + Unrendered(d, "apply"),
                   !.sawSubmit = (d["submit"] # "absent"),
                   !.st = "applyWait"]

\* HAResume with a wait that is started again while no submit button is found.
HAResume_WaitAgain(d, q) ==
    IF findElement(d, "submit") = "null"
    THEN q
    ELSE Answer([q EXCEPT !.locSubmit = @ + 1,
                          !.clkSubmit = @ + 1,
                          !.hiddenClicks = @ + Unrendered(d, "submit")], Success)

\* content.js:126-131: the continuation after the 2000 ms timer.
HAResume(d, q) ==
    IF findElement(d, "submit") = "null"
    THEN Answer([q EXCEPT !.locSubmit = @ + 1], Err("Submission failed"))
    ELSE Answer([q EXCEPT !.locSubmit = @ + 1,
                          !.clkSubmit = @ + 1,
                          !.hiddenClicks = @ + Unrendered(d, "submit")], Success)

\* ------------------------------------------------- scrapeJobDetails
\* ScrapeStart that reads the fields in the turn of the click, without the
\* settle delay.
ScrapeStart_NoSettle(d, q) ==
    IF findElement(d, "seeMore") = "null"
    THEN Answer([q EXCEPT !.locSeeMore = @ + 1], JobRecord)
    ELSE Answer([q EXCEPT !.locSeeMore = @ + 1,
                          !.clkSeeMore = @ + 1,
                          !.hiddenClicks = @ + Unrendered(d, "seeMore")], JobRecord)

\* content.js:82-89 and 91-109: expandDescription clicks the see-more button
\* when one is found and then waits 500 ms; without one the record is built in
\* the same turn.
ScrapeStart(d, q) ==
    IF findElement(d, "seeMore") = "null"
    THEN Answer([q EXCEPT !.locSeeMore = @ + 1], JobRecord)
    ELSE [q EXCEPT !.locSeeMore = @ + 1,
                   !.clkSeeMore = @ + 1,
                   !.hiddenClicks = @ + Unrendered(d, "seeMore"),
                   !.st = "expandWait"]

\* content.js:95-109: the continuation after the 500 ms settle delay.
ScrapeResume(q) == Answer(q, JobRecord)

\* ------------------------------------------------- processResumePDF
\* content.js:145-165: new FileReader, then readAsArrayBuffer(file).  A value
\* that is no Blob makes readAsArrayBuffer throw inside the promise executor,
\* which rejects the promise (caught at content.js:191-194); a Blob starts an
\* asynchronous read.
PRRead(q) ==
    IF q.msg.file = "blob"
    THEN [q EXCEPT !.st = "reading"]
    ELSE Answer(q, Err("TypeError: parameter 1 is not of type Blob"))

\* content.js:143: the PDF engine is imported first unless already initialised.
PRStart(init, q) ==
    IF init THEN PRRead(q) ELSE [q EXCEPT !.st = "pdfInit"]

\* ------------------------------------------------- the message listener
\* content.js:176-195: handleRequest switches on request.action.
Dispatch(d, init, q) ==
    CASE q.msg.action = "processResume" -> PRStart(init, q)
      [] q.msg.action = "getJobDetails" -> ScrapeStart(d, q)
      [] q.msg.action = "applyToJob"    -> HAStart(d, q)
      [] OTHER -> Answer(q, Err("Unknown action"))

\* The next request slot: requests are numbered in order of arrival.
NextSlot(r) == /\ req[r].st = "none"
               /\ \A s \in Req : s < r => req[s].st # "none"

\* content.js:175-199: the listener runs handleRequest up to its first
\* suspension point.
Listener(r, m, popup) ==
    /\ NextSlot(r)
    /\ req' = [req EXCEPT ![r] =
                 Dispatch(dom, pdfInitialized,
                          [FreshReq EXCEPT !.msg = m, !.viaPopup = popup])]

\* A message arrives from some other extension context.
Deliver(r, m) ==
    /\ Listener(r, m, FALSE)
    /\ UNCHANGED <<dom, pdfInitialized>>

\* content.js:124: the 2000 ms timer of handleApplication fires.
HATimer(r) ==
    /\ req[r].st = "applyWait"
    /\ req' = [req EXCEPT ![r] = HAResume(dom, [@ EXCEPT !.waited = TRUE])]
    /\ UNCHANGED <<dom, pdfInitialized>>

\* content.js:86: the 500 ms timer of expandDescription fires.
ExpandTimer(r) ==
    /\ req[r].st = "expandWait"
    /\ req' = [req EXCEPT ![r] = ScrapeResume([@ EXCEPT !.waited = TRUE])]
    /\ UNCHANGED <<dom, pdfInitialized>>

\* content.js:17-20: the dynamic import resolves.
PdfImportOk(r) ==
    /\ req[r].st = "pdfInit"
    /\ pdfInitialized' = TRUE
    /\ req' = [req EXCEPT ![r] = PRRead(@)]
    /\ UNCHANGED dom

\* content.js:22-25, 166-169, 191-194: the import rejects; initializePDF throws
\* 'PDF processing unavailable', processResumePDF rethrows, handleRequest
\* catches and answers {error: error.message}.
PdfImportFail(r) ==
    /\ req[r].st = "pdfInit"
    /\ req' = [req EXCEPT ![r] = Answer(@, Err("PDF processing unavailable"))]
    /\ UNCHANGED <<dom, pdfInitialized>>

\* content.js:147-149: the reader's load event; onload starts getDocument.
ReaderLoad(r) ==
    /\ req[r].st = "reading"
    /\ req' = [req EXCEPT ![r].st = "parsing"]
    /\ UNCHANGED <<dom, pdfInitialized>>

\* content.js:145-164: the reader's error event.  Only onload is set, so no
\* callback runs and the promise of line 146 is neither resolved nor rejected.
ReaderError(r) ==
    /\ req[r].st = "reading"
    /\ req' = [req EXCEPT ![r].st = "readError"]
    /\ UNCHANGED <<dom, pdfInitialized>>

\* content.js:149-159: getDocument and the page loop succeed; resolve(text).
ParseOk(r) ==
    /\ req[r].st = "parsing"
    /\ req' = [req EXCEPT ![r] = Answer(@, ResumeText)]
    /\ UNCHANGED <<dom, pdfInitialized>>

\* content.js:160-162 and 191-194: getDocument or a page rejects; reject(error)
\* reaches handleRequest's catch.
ParseFail(r) ==
    /\ req[r].st = "parsing"
    /\ req' = [req EXCEPT ![r] = Answer(@, Err("Invalid PDF structure"))]
    /\ UNCHANGED <<dom, pdfInitialized>>

\* The host page adds or removes a button, or shows or hides it.  A run that
\* is waiting for the submit button records whether one was ever there.
PageMutates(b, e) ==
    /\ dom[b] # e
    /\ dom' = [dom EXCEPT ![b] = e]
    /\ req' = [ r \in Req |->
                  IF req[r].st = "applyWait" /\ b = "submit" /\ e # "absent"
                  THEN [req[r] EXCEPT !.sawSubmit = TRUE]
                  ELSE req[r] ]
    /\ UNCHANGED pdfInitialized

\* The callbacks of the content script that a pending timer or platform
\* promise starts.
ContentSteps ==
    \/ \E r \in Req : HATimer(r)
    \/ \E r \in Req : ExpandTimer(r)
    \/ \E r \in Req : PdfImportOk(r)
    \/ \E r \in Req : PdfImportFail(r)
    \/ \E r \in Req : ReaderLoad(r)
    \/ \E r \in Req : ReaderError(r)
    \/ \E r \in Req : ParseOk(r)
    \/ \E r \in Req : ParseFail(r)

\* =================================================================
\* The page-load script (part_000) and its single-shot mutation watcher
\* =================================================================

\* A stored value is a number or is missing.
Undefined == [def |-> FALSE, n |-> 0]
Num(n) == [def |-> TRUE, n |-> n]

\* parseInt of a stored value: NaN for a missing one.
ParseInt(v) == IF v.def THEN [nan |-> FALSE, n |-> v.n] ELSE [nan |-> TRUE, n |-> 0]

\* JavaScript's x || d on a number: NaN and 0 are falsy.
OrElse(x, d) == IF x.nan \/ x.n = 0 THEN d ELSE x.n

\* part_000:44-46: the arguments attemptAutoApply is called with.
MatchScoreOf(st) == OrElse(ParseInt(st.matchScore), 0)
MinScoreOf(st) == OrElse(ParseInt(st.minScore), 75)
AutoApplyOf(st) == st.autoApply = "true"

StoredScores == { Undefined, Num(0), Num(50), Num(75), Num(100) }
StoredFlags == { "undefined", "true", "false" }

WatchIdleState ==
    [ phase |-> "loading",     \* loading, settling, attempted
      observer |-> "none",     \* none, observing, disconnected
      pending |-> FALSE,       \* mutation records are queued for the callback
      fallback |-> "none",     \* the 10000 ms timer: none, armed, fired
      clicks |-> 0,            \* clicks of the apply button by the callback
      minScore |-> 0,          \* the minScore attemptAutoApply was called with
      nDisconnect |-> 0,       \* calls of disconnect()
      mutatedLate |-> FALSE,   \* the page mutated after the fallback timer fired
      clickedLate |-> FALSE,   \* a click happened after the fallback timer fired
      ranCancelled |-> FALSE ] \* the callback ran after a disconnect()

WatchIdle ==
    /\ storage = [matchScore |-> Undefined, minScore |-> Undefined, autoApply |-> "undefined"]
    /\ w = WatchIdleState

\* MutationObserver.disconnect(): the observer stops receiving and its record
\* queue is emptied.  Calling it on a disconnected observer changes nothing.
Disconnect(x) ==
    [x EXCEPT !.observer = "disconnected", !.pending = FALSE, !.nDisconnect = @ + 1]

\* The callback of part_000:19-26 without the disconnect of line 24.
OnMutations_KeepObserving(d, x) ==
    IF d["apply"] # "absent" THEN [x EXCEPT !.clicks = @ + 1, !.pending = FALSE]
    ELSE [x EXCEPT !.pending = FALSE]

\* part_000:19-26: the observer callback.  querySelector finds the button
\* whether or not it is rendered; a match is clicked and the observer
\* disconnected.  The records the click itself queues go with the disconnect.
OnMutations(d, x) ==
    IF d["apply"] # "absent"
    THEN Disconnect([x EXCEPT !.clicks = @ + 1])
    ELSE [x EXCEPT !.pending = FALSE]

\* The fallback of part_000:31 with the disconnect left out.
OnFallback_KeepObserving(x) == [x EXCEPT !.fallback = "fired"]

\* part_000:31: the fallback timer's callback.
OnFallback(x) == Disconnect([x EXCEPT !.fallback = "fired"])

\* part_000:15-36: attemptAutoApply.  The gate of line 16, then observe() on
\* document.body and the 10000 ms fallback timer.
AttemptAutoApply(matchScore, minScore, autoApplyEnabled, x) ==
    IF autoApplyEnabled /\ matchScore >= minScore
    THEN [x EXCEPT !.phase = "attempted", !.minScore = minScore,
                   !.observer = "observing", !.fallback = "armed"]
    ELSE [x EXCEPT !.phase = "attempted", !.minScore = minScore]

\* part_000:39-50: DOMContentLoaded, then the storage callback, which starts
\* the 3000 ms settle timer.
PageLoaded ==
    /\ w.phase = "loading"
    /\ w' = [w EXCEPT !.phase = "settling"]
    /\ UNCHANGED <<storage, dom, pdfInitialized, req, popupVars, cfgVars>>

\* part_000:49: the settle timer fires and attemptAutoApply runs.
SettleTimer ==
    /\ w.phase = "settling"
    /\ w' = AttemptAutoApply(MatchScoreOf(storage), MinScoreOf(storage),
                             AutoApplyOf(storage), w)
    /\ UNCHANGED <<storage, dom, pdfInitialized, req, popupVars, cfgVars>>

\* The observer's callback is invoked with the queued records.
ObserverCallback ==
    /\ w.pending
    /\ LET x == OnMutations(dom, w)
       IN w' = [x EXCEPT !.clickedLate = @ \/ (w.fallback = "fired" /\ x.clicks > w.clicks),
                         !.ranCancelled = @ \/ (w.nDisconnect > 0)]
    /\ UNCHANGED <<storage, dom, pdfInitialized, req, popupVars, cfgVars>>

\* The 10000 ms fallback timer fires.
FallbackTimer ==
    /\ w.fallback = "armed"
    /\ w' = OnFallback(w)
    /\ UNCHANGED <<storage, dom, pdfInitialized, req, popupVars, cfgVars>>

\* The host page changes the document under document.body.  Adding or removing
\* the button, or any other node (e = the button's current state), is a
\* childList mutation and queues a record for a connected observer; showing or
\* hiding a button that stays in the document is not.
IsChildList(old, new) == old = new \/ old = "absent" \/ new = "absent"

WatchedPageMutates(e) ==
    /\ dom' = [dom EXCEPT !["apply"] = e]
    /\ w' = [w EXCEPT !.pending = @ \/ (w.observer = "observing" /\ IsChildList(dom["apply"], e)),
                      !.mutatedLate = @ \/ (w.fallback = "fired" /\ IsChildList(dom["apply"], e))]
    /\ UNCHANGED <<storage, pdfInitialized, req, popupVars, cfgVars>>

WatchNext ==
    \/ PageLoaded
    \/ SettleTimer
    \/ ObserverCallback
    \/ FallbackTimer
    \/ \E e \in ElemStates : WatchedPageMutates(e)

\* =================================================================
\* The popup (part_001): sendToTab, onApply, onAutoApplyPage
\* =================================================================
Ops == 1 .. MaxOps

\* chrome.runtime.lastError.message when no listener is registered in the tab.
NoReceiverError == "Could not establish connection. Receiving end does not exist."
\* chrome.runtime.lastError.message when the tab goes away before it answers.
PortClosedError == "The message port closed before a response was received."
\* part_001:18: withTimeout's default message.
TimeoutError == "Timeout"
\* chrome.scripting.executeScript rejects in a tab the extension may not script.
InjectError == "Cannot access contents of the page"

\* part_001:44: /Receiving end does not exist/i.test(err.message).
MatchesNoReceiver(m) == m = NoReceiverError

\* part_001:177 and 196: the URL tests of the two handlers.  "job" is a posting
\* (linkedin.com/jobs/view/...), "jobs" the jobs feed (linkedin.com/jobs),
\* "other" any other page, "none" no active tab.
TabUrls == {"none", "other", "jobs", "job"}
UrlOk(kind, url) == IF kind = "single" THEN url = "job" ELSE url \in {"jobs", "job"}
UrlError(kind) == IF kind = "single" THEN "Open a LinkedIn job posting first"
                  ELSE "Open a LinkedIn Jobs page first"

PayloadOf(kind) == IF kind = "single" THEN AutoApplyPayload ELSE BulkApplyPayload

FreshOp ==
    [ kind |-> "none",      \* none, single (onApply), bulk (onAutoApplyPage)
      pc |-> "idle",        \* idle, query, send, inject, settle, done
      retries |-> 0,        \* sendToTab's retries argument of the current call
      delivered |-> FALSE,  \* the current message reached a listener
      reqId |-> 0,          \* the listener's request the current message became
      nSend |-> 0,          \* calls of chrome.tabs.sendMessage
      nInject |-> 0,        \* calls of chrome.scripting.executeScript
      errs |-> <<>>,        \* the error of each failed delivery, in order
      failure |-> "",       \* why the operation failed ("" when it did not)
      alert |-> "",         \* what alert() showed for this run ("" when nothing)
      resumeRead |-> "none",   \* cfg.resume as the handler's closure holds it
      resumeAtSend |-> "none" ] \* cfg.resume in the state when sendMessage was called

PopupIdleState ==
    [ \* cfg.resume: "none" is null, "empty" a résumé whose text is '',
      \* "text" a résumé with text
      resume |-> "none", busy |-> FALSE, bulkBusy |-> FALSE,
      \* the values the handlers and buttons of the last render closed over
      rResume |-> "none", rBusy |-> FALSE, rBulkBusy |-> FALSE ]

PopupIdle ==
    /\ tab = [url |-> "none", listener |-> FALSE]
    /\ pop = PopupIdleState
    /\ ops = [ o \in Ops |-> FreshOp ]

\* part_001:124-129: hydration spreads the stored appState into cfg, its resume
\* included: a popup reopened after an upload starts with the résumé loaded.
StoredResume == [PopupIdleState EXCEPT !.resume = "text", !.rResume = "text"]

\* React renders the committed state: handlers and buttons see it from now on.
Rendered(p) == [p EXCEPT !.rResume = p.resume, !.rBusy = p.busy, !.rBulkBusy = p.bulkBusy]

\* The handlers with setBusy(false) / setBulkBusy(false) at the end of the try
\* block instead of in a finally block: a run that throws keeps its flag.
ReleaseBusy_OnSuccessOnly(kind, p) == p

\* part_001:183-185 and 207-209: the finally block.
ReleaseBusy(kind, p) ==
    IF kind = "single" THEN [p EXCEPT !.busy = FALSE] ELSE [p EXCEPT !.bulkBusy = FALSE]

\* part_001:180-182 and 204-206: the catch block shows err.message.
Caught(op, m) == [op EXCEPT !.pc = "done", !.failure = m, !.alert = m]

\* part_001:179: onApply awaits sendToTab and drops the response.
\* part_001:197-203: onAutoApplyPage throws resp.error into its catch block, and
\* otherwise reports the count.
Returned(op, resp) ==
    IF op.kind = "single"
    THEN [op EXCEPT !.pc = "done",
                    !.failure = IF resp.kind = "error" THEN resp.error ELSE ""]
    ELSE IF resp.kind = "error"
         THEN Caught(op, resp.error)
         ELSE [op EXCEPT !.pc = "done", !.alert = "Finished! Applied to N job(s)."]

\* The retry test with the retries > 0 guard only: any failure is retried once.
RetryAfter_AnyError(retries, m) == retries > 0

\* part_001:44: inject and resend only with retries left and only when no
\* listener was registered.
RetryAfter(retries, m) == retries > 0 /\ MatchesNoReceiver(m)

\* part_001:43-50: sendToTab's catch block.
SendFailed(op, m) ==
    IF RetryAfter(op.retries, m)
    THEN [op EXCEPT !.errs = Append(@, m), !.pc = "inject", !.nInject = @ + 1]
    ELSE Caught([op EXCEPT !.errs = Append(@, m)], m)

\* part_001:30-42: one call of sendToTab: chrome.tabs.sendMessage under the
\* timeout.
SendCall(op, retries) ==
    [op EXCEPT !.pc = "send", !.retries = retries, !.delivered = FALSE,
               !.reqId = 0, !.nSend = @ + 1, !.resumeAtSend = pop.resume]

NextOp(o) == /\ ops[o].pc = "idle"
             /\ \A k \in Ops : k < o => ops[k].pc # "idle"

\* The disabled attribute with the busy flag of the other button left out.
ButtonEnabled_OwnFlagOnly == pop.rResume # "none" /\ ~pop.rBusy

\* part_001:285-297: both buttons are disabled without a resume or while
\* either flag is set; the guard of part_001:172 and 191 reads the same
\* captured flags.
ButtonEnabled == pop.rResume # "none" /\ ~pop.rBusy /\ ~pop.rBulkBusy

\* part_001:170-176 and 189-195: a click runs the handler up to its first
\* await.  Without résumé text in its closure the handler alerts and returns
\* (part_001:171, 190).  Otherwise it sets its busy flag; state set in a click
\* handler is rendered before the next event is handled.
Click(o, kind) ==
    /\ NextOp(o)
    /\ ButtonEnabled
    /\ IF pop.rResume # "text"
       THEN /\ pop' = pop
            /\ ops' = [ops EXCEPT ![o] =
                         [FreshOp EXCEPT !.kind = kind, !.pc = "done",
                                         !.resumeRead = pop.rResume,
                                         !.alert = "Upload your résumé first"]]
       ELSE /\ pop' = Rendered(IF kind = "single" THEN [pop EXCEPT !.busy = TRUE]
                               ELSE [pop EXCEPT !.bulkBusy = TRUE])
            /\ ops' = [ops EXCEPT ![o] =
                         [FreshOp EXCEPT !.kind = kind, !.pc = "query",
                                         !.resumeRead = pop.rResume]]
    /\ UNCHANGED <<tab, contentVars, watchVars>>

\* part_001:143-162: a PDF was chosen and parsed, with text or (a scanned
\* document) with none; setCfg replaces cfg.resume.  The file input is never
\* disabled, so this happens in any state.
HandleResume(t) ==
    /\ pop.resume # t
    /\ pop' = [pop EXCEPT !.resume = t]
    /\ UNCHANGED <<tab, ops, contentVars, watchVars>>

\* React renders state set outside an event handler (handleResume's
\* continuation, the finally blocks).
Render ==
    /\ pop # Rendered(pop)
    /\ pop' = Rendered(pop)
    /\ UNCHANGED <<tab, ops, contentVars, watchVars>>

\* part_001:176-179 and 195-201: chrome.tabs.query resolves; the URL test, then
\* the first call of sendToTab with retries = 1.
TabsQueryReturns(o) ==
    /\ ops[o].pc = "query"
    /\ IF tab.url # "none" /\ UrlOk(ops[o].kind, tab.url)
       THEN /\ ops' = [ops EXCEPT ![o] = SendCall(@, 1)]
            /\ pop' = pop
       ELSE /\ ops' = [ops EXCEPT ![o] = Caught(@, UrlError(@.kind))]
            /\ pop' = ReleaseBusy(ops[o].kind, pop)
    /\ UNCHANGED <<tab, contentVars, watchVars>>

\* The message reaches the content script's listener (content.js:175-199).
MessageDelivered(o, r) ==
    /\ ops[o].pc = "send" /\ ~ops[o].delivered
    /\ tab.listener
    /\ Listener(r, PayloadOf(ops[o].kind), TRUE)
    /\ ops' = [ops EXCEPT ![o].delivered = TRUE, ![o].reqId = r]
    /\ UNCHANGED <<tab, pop, dom, pdfInitialized, watchVars>>

\* A delivery ends in failure with message m and sendToTab's catch block runs;
\* when it rethrows, the handler's catch and finally blocks run too.
DeliveryFails(o, m) ==
    /\ ops' = [ops EXCEPT ![o] = SendFailed(@, m)]
    /\ pop' = IF RetryAfter(ops[o].retries, m) THEN pop
              ELSE ReleaseBusy(ops[o].kind, pop)
    /\ UNCHANGED <<tab, contentVars, watchVars>>

\* part_001:35-37: no listener in the tab; the callback sees lastError.
NoReceiver(o) ==
    /\ ops[o].pc = "send" /\ ~ops[o].delivered
    /\ ~tab.listener
    /\ DeliveryFails(o, NoReceiverError)

\* part_001:35-37: the tab went away after delivery and before its answer.
PortClosed(o) ==
    /\ ops[o].pc = "send" /\ ops[o].delivered
    /\ DeliveryFails(o, PortClosedError)

\* part_001:18-19: the timeout wins the race.
TimeoutFires(o) ==
    /\ ops[o].pc = "send"
    /\ DeliveryFails(o, TimeoutError)

\* part_001:35-38: the listener's response arrives; sendToTab returns it and
\* the handler finishes.
ResponseArrives(o) ==
    /\ ops[o].pc = "send" /\ ops[o].delivered
    /\ req[ops[o].reqId].st = "responded"
    /\ ops' = [ops EXCEPT ![o] = Returned(@, req[ops[o].reqId].result)]
    /\ pop' = ReleaseBusy(ops[o].kind, pop)
    /\ UNCHANGED <<tab, contentVars, watchVars>>

\* part_001:45-46: executeScript installed content.js, whose listener is now
\* registered; the 400 ms wait starts.
InjectDone(o) ==
    /\ ops[o].pc = "inject"
    /\ tab.url # "none"
    /\ tab' = [tab EXCEPT !.listener = TRUE]
    /\ ops' = [ops EXCEPT ![o].pc = "settle"]
    /\ UNCHANGED <<pop, contentVars, watchVars>>

\* part_001:45: executeScript rejects; the error leaves sendToTab's catch block
\* and reaches the handler's.
InjectFails(o) ==
    /\ ops[o].pc = "inject"
    /\ ops' = [ops EXCEPT ![o] = Caught(@, InjectError)]
    /\ pop' = ReleaseBusy(ops[o].kind, pop)
    /\ UNCHANGED <<tab, contentVars, watchVars>>

\* part_001:46-47: the 400 ms wait is over; sendToTab calls itself with
\* retries - 1.
SettleDone(o) ==
    /\ ops[o].pc = "settle"
    /\ ops' = [ops EXCEPT ![o] = SendCall(@, @.retries - 1)]
    /\ UNCHANGED <<tab, pop, contentVars, watchVars>>

\* The user navigates or closes the tab, or a page load runs the content
\* script: the URL changes and a listener appears or disappears.
TabChanges(url, listener) ==
    /\ tab # [url |-> url, listener |-> listener]
    /\ url = "none" => ~listener
    /\ tab' = [url |-> url, listener |-> listener]
    /\ UNCHANGED <<pop, ops, contentVars, watchVars>>

\* sendToTab's callbacks, from chrome.tabs.query to the handler's finally.
SendSteps ==
    \/ \E o \in Ops : TabsQueryReturns(o)
    \/ \E o \in Ops, r \in Req : MessageDelivered(o, r)
    \/ \E o \in Ops : NoReceiver(o)
    \/ \E o \in Ops : PortClosed(o)
    \/ \E o \in Ops : TimeoutFires(o)
    \/ \E o \in Ops : ResponseArrives(o)
    \/ \E o \in Ops : InjectDone(o)
    \/ \E o \in Ops : InjectFails(o)
    \/ \E o \in Ops : SettleDone(o)

\* The popup with its résumé loaded, over a tab that navigates.
PopupNext ==
    \/ \E o \in Ops, kind \in {"single", "bulk"} : Click(o, kind)
    \/ Render
    \/ SendSteps
    \/ \E url \in TabUrls, listener \in BOOLEAN : TabChanges(url, listener)

\* The popup over one job posting, while résumés are uploaded.
ClickNext ==
    \/ \E o \in Ops, kind \in {"single", "bulk"} : Click(o, kind)
    \/ \E t \in {"empty", "text"} : HandleResume(t)
    \/ Render
    \/ SendSteps

\* =================================================================
\* The popup's configuration (part_001:106-140): hydration and persistence
\* =================================================================

\* An instant is a UTC day and the half of that day it falls in; an ISO-8601
\* timestamp names an instant.  The popup runs in a time zone west of UTC, at
\* UTC, or east of it.
Days == 0 .. MaxDay
Instants == [day : Days, half : {"am", "pm"}]
Zones == {"west", "utc", "east"}

\* Date.prototype.toDateString: the calendar date of an instant in local time.
\* West of UTC the UTC morning is still the day before; east of UTC the UTC
\* afternoon is already the day after.
ToDateString(t, tz) ==
    CASE tz = "west" /\ t.half = "am" -> [valid |-> TRUE, day |-> t.day - 1]
      [] tz = "east" /\ t.half = "pm" -> [valid |-> TRUE, day |-> t.day + 1]
      [] OTHER -> [valid |-> TRUE, day |-> t.day]

InvalidDate == [valid |-> FALSE, day |-> 0]

\* A stored lastApplied: null, a string that is no date, or an ISO timestamp.
NullStamp == [kind |-> "null", t |-> [day |-> 0, half |-> "am"]]
BadStamp == [kind |-> "invalid", t |-> [day |-> 0, half |-> "am"]]
Iso(t) == [kind |-> "iso", t |-> t]
Stamps == {NullStamp, BadStamp} \cup { Iso(t) : t \in Instants }

\* new Date(lastApplied).toDateString(): part_001:123.
StampDateString(stamp, tz) ==
    IF stamp.kind = "iso" THEN ToDateString(stamp.t, tz) ELSE InvalidDate

\* part_001:127: the daily maximum of creditsLeft.
DailyCredits == 10

\* part_001:106-114: the initial cfg.
DefaultCfg ==
    [ numApplications |-> 5, remainingApplications |-> 5, creditsLeft |-> DailyCredits,
      lastApplied |-> NullStamp ]

\* The persisted appState values the popup can find.
StoredStates ==
    { st \in [ numApplications : {1, 3}, remainingApplications : {0, 1, 3},
               creditsLeft : {0, 4, DailyCredits}, lastApplied : Stamps ] :
        st.remainingApplications <= st.numApplications }

\* part_001:123: whether the daily counters are reset.
NeedsReset(st, now, tz) ==
    \/ st.lastApplied.kind = "null"
    \/ StampDateString(st.lastApplied, tz) # ToDateString(now, tz)

\* Hydration that takes the stored counters as they are.
Hydrate_NoReset(prev, st, now, tz) == st

\* part_001:122-129: the cfg that hydration sets from a stored appState.
Hydrate(prev, st, now, tz) ==
    [ numApplications |-> st.numApplications,
      lastApplied |-> st.lastApplied,
      creditsLeft |-> IF NeedsReset(st, now, tz) THEN DailyCredits ELSE st.creditsLeft,
      remainingApplications |-> IF NeedsReset(st, now, tz) THEN st.numApplications
                                ELSE st.remainingApplications ]

CfgIdleView ==
    [ loading |-> TRUE, now |-> [day |-> 0, half |-> "am"], tz |-> "utc",
      read |-> DefaultCfg, readAt |-> [day |-> 0, half |-> "am"] ]

CfgIdle ==
    /\ appState = DefaultCfg
    /\ cfg = DefaultCfg
    /\ view = CfgIdleView

\* part_001:120-132: the storage callback of the hydrate effect.
HydrateCfg ==
    /\ view.loading
    /\ cfg' = Hydrate(cfg, appState, view.now, view.tz)
    /\ view' = [view EXCEPT !.loading = FALSE, !.read = appState, !.readAt = view.now]
    /\ UNCHANGED <<appState, contentVars, watchVars, popupVars>>

\* part_001:137-140: the debounced persist effect writes cfg back.
PersistCfg ==
    /\ ~view.loading
    /\ appState # cfg
    /\ appState' = cfg
    /\ UNCHANGED <<cfg, view, contentVars, watchVars, popupVars>>

\* part_001:316-321: the popup is closed and opened again; App mounts with the
\* initial cfg.
ReopenPopup ==
    /\ ~view.loading
    /\ cfg' = DefaultCfg
    /\ view' = [view EXCEPT !.loading = TRUE]
    /\ UNCHANGED <<appState, contentVars, watchVars, popupVars>>

\* Half a day passes.
ClockTicks ==
    /\ view.now.half = "pm" => view.now.day < MaxDay
    /\ view' = [view EXCEPT !.now = IF @.half = "am" THEN [@ EXCEPT !.half = "pm"]
                                    ELSE [day |-> @.day + 1, half |-> "am"]]
    /\ UNCHANGED <<appState, cfg, contentVars, watchVars, popupVars>>

CfgNext ==
    \/ HydrateCfg
    \/ PersistCfg
    \/ ReopenPopup
    \/ ClockTicks

\* =================================================================
\* The persistent observer of the content script (content.js:203-216)
\* =================================================================
Scrapes == 1 .. MaxScrapes

\* Firings are numbered in order.
NextScrape(s) == /\ wreq[s].st = "none"
                 /\ \A t \in Scrapes : t < s => wreq[t].st # "none"

\* An apply sequence is between its apply click and its outcome.
ApplyInFlight == \E r \in Req : req[r].st = "applyWait"

\* content.js:203-210: the observer's callback.  It starts scrapeJobDetails on
\* the document as the mutation left it, whatever else is running; the
\* promise's reaction sends jobContentUpdated, recorded as the run's answer.
OnMutation(d, q) ==
    [ScrapeStart(d, q) EXCEPT
        !.duringApply = ApplyInFlight /\ findElement(d, "seeMore") # "null"]

\* A node is added to or removed from the document.  The observer watches
\* childList over the whole subtree (content.js:212-216), so its callback runs
\* as a microtask of the turn that made the change.
ObservedMutation(s, b, e) ==
    /\ NextScrape(s)
    /\ IsChildList(dom[b], e)
    /\ dom' = [dom EXCEPT ![b] = e]
    /\ req' = [ r \in Req |->
                  IF req[r].st = "applyWait" /\ b = "submit" /\ e # "absent"
                  THEN [req[r] EXCEPT !.sawSubmit = TRUE]
                  ELSE req[r] ]
    /\ wreq' = [wreq EXCEPT ![s] = OnMutation(dom', [FreshReq EXCEPT !.st = "started"])]
    /\ UNCHANGED <<pdfInitialized, doc>>

\* A button that stays in the document is shown or hidden: attributes are not
\* observed (content.js:215), no callback runs.
StyleMutation(b, e) ==
    /\ ~IsChildList(dom[b], e)
    /\ PageMutates(b, e)
    /\ UNCHANGED pageVars

\* content.js:86: the 500 ms timer of an observer-started extraction fires.
ScrapeTimer(s) ==
    /\ wreq[s].st = "expandWait"
    /\ wreq' = [wreq EXCEPT ![s] = ScrapeResume([@ EXCEPT !.waited = TRUE])]
    /\ UNCHANGED <<contentVars, doc>>

\* The page answers a see-more click by putting the whole description in
\* place of the clipped one.
DescriptionExpands ==
    /\ doc.els["description"] = Elem(RawText("description"))
    /\ doc' = [doc EXCEPT !.els["description"] = Elem(ExpandedText)]
    /\ UNCHANGED <<contentVars, wreq>>

\* ------------------------------------- the page answers the see-more click
\* What the host page does to the child list under document.body after a click
\* on its see-more button (content.js:85): nothing, or it puts the other form
\* of the description in place and keeps the button, or it takes the button
\* out of the document.
Reactions == {"none", "toggle", "remove"}

\* content.js:203-210 with 82-89: one run of the observer's callback on the
\* document d.  A run that clicked the see-more button leaves a click the page
\* has yet to answer.
Fired(d) ==
    LET q == OnMutation(d, [FreshReq EXCEPT !.st = "started"])
    IN  [q EXCEPT !.unanswered = (q.clkSeeMore > 0)]

\* A run of the callback needs a record: the next unused one, or the record of
\* a run that has pushed its jobContentUpdated and is remembered no longer.
FreeScrape(s) ==
    \/ NextScrape(s)
    \/ wreq[s].st = "responded" /\ ~wreq[s].unanswered

\* The host page changes the child list on its own: content.js:212-216 runs
\* the callback.  Only unused records are taken, so these batches are finitely
\* many in every behaviour.
ExternalMutation(s, b, e) ==
    /\ NextScrape(s)
    /\ IsChildList(dom[b], e)
    /\ dom' = [dom EXCEPT ![b] = e]
    /\ wreq' = [wreq EXCEPT ![s] = Fired(dom')]
    /\ UNCHANGED <<pdfInitialized, req, doc>>

\* The page answers the click made by run t.  An answer that changes the child
\* list is a mutation under the observed root (content.js:212-216): the
\* callback runs once more, as run s, and nothing in content.js:203-210 tells
\* this batch from one the page made on its own.
ClickAnswered(t, s, r) ==
    /\ wreq[t].unanswered
    /\ IF r = "none"
       THEN /\ s = t
            /\ wreq' = [wreq EXCEPT ![t].unanswered = FALSE]
            /\ UNCHANGED <<dom, doc>>
       ELSE /\ s # t
            /\ FreeScrape(s)
            /\ dom' = IF r = "remove" THEN [dom EXCEPT !["seeMore"] = "absent"] ELSE dom
            /\ doc' = IF r = "remove" THEN doc
                      ELSE [doc EXCEPT !.els["description"] =
                              IF @ = Elem(ExpandedText) THEN Elem(RawText("description"))
                                                        ELSE Elem(ExpandedText)]
            /\ wreq' = [wreq EXCEPT ![t].unanswered = FALSE, ![s] = Fired(dom')]
    /\ UNCHANGED <<pdfInitialized, req>>

\* ---------------------------------------------- the helpers on their own
SeqsUpTo(S, n) == UNION { [1 .. k -> S] : k \in 0 .. n }

Pending == [done |-> FALSE, value |-> <<>>]
Done(v) == [done |-> TRUE, value |-> v]

\* findElement(arg.selectors) on the document arg.qs: content.js:68-74.
Locate ==
    /\ ~out.done
    /\ out' = Done(<<findElementIn(arg.selectors, arg.qs)>>)
    /\ UNCHANGED <<arg, contentVars, pageVars>>

\* getSafeText(arg): content.js:76-77.
Normalize ==
    /\ ~out.done
    /\ out' = Done(getSafeText(arg))
    /\ UNCHANGED <<arg, contentVars, pageVars>>

PageIdle ==
    /\ doc = EmptyPage
    /\ wreq = [ s \in Scrapes |-> FreshReq ]

PureIdle ==
    /\ arg = <<>>
    /\ out = <<>>

\* =================================================================
\* Specifications
\* =================================================================
ContentInit ==
    /\ dom \in [Buttons -> ElemStates]
    /\ ContentIdle
    /\ WatchIdle
    /\ PopupIdle
    /\ CfgIdle
    /\ PageIdle
    /\ PureIdle

WatchInit ==
    /\ storage \in [matchScore : StoredScores, minScore : StoredScores, autoApply : StoredFlags]
    /\ w = WatchIdleState
    /\ dom \in { d \in [Buttons -> ElemStates] : d["submit"] = "absent" /\ d["seeMore"] = "absent" }
    /\ ContentIdle
    /\ PopupIdle
    /\ CfgIdle
    /\ PageIdle
    /\ PureIdle

\* The popup is opened over a page with or without its apply and submit
\* buttons.
PopupInit ==
    /\ dom \in { d \in [Buttons -> {"absent", "visible"}] :
                   d["seeMore"] = "absent" /\ d["apply"] = d["submit"] }
    /\ ContentIdle
    /\ WatchIdle
    /\ tab = [url |-> "none", listener |-> FALSE]
    /\ pop = StoredResume
    /\ ops = [ o \in Ops |-> FreshOp ]
    /\ CfgIdle
    /\ PageIdle
    /\ PureIdle

ContentNext ==
    \/ \E r \in Req, m \in ActionMessages \cup {AutoApplyPayload} : Deliver(r, m)
    \/ \E b \in Buttons, e \in ElemStates : PageMutates(b, e)
    \/ ContentSteps

\* What a step of the content script's listener leaves alone.
ContentFrame == UNCHANGED <<watchVars, popupVars, cfgVars, pageVars, pureVars>>

ContentSpec == ContentInit /\ [][ContentNext /\ ContentFrame]_vars

PopupSpec == PopupInit /\ [][PopupNext /\ UNCHANGED <<cfgVars, pageVars, pureVars>>]_vars

\* The popup opened for the first time over a LinkedIn job posting, with or
\* without the content script's listener in the tab.
ClickInit ==
    /\ dom = [b \in Buttons |-> "absent"]
    /\ ContentIdle
    /\ WatchIdle
    /\ tab \in { [url |-> "job", listener |-> l] : l \in BOOLEAN }
    /\ pop = PopupIdleState
    /\ ops = [ o \in Ops |-> FreshOp ]
    /\ CfgIdle
    /\ PageIdle
    /\ PureIdle

ClickSpec == ClickInit /\ [][ClickNext /\ UNCHANGED <<cfgVars, pageVars, pureVars>>]_vars

\* The popup with its résumé loaded, opened over any tab; the tab's page loads
\* or unloads the content script, and the tab may be closed.
BusyInit ==
    /\ dom = [b \in Buttons |-> "absent"]
    /\ ContentIdle
    /\ WatchIdle
    /\ tab \in { t \in [url : TabUrls, listener : BOOLEAN] : t.url = "none" => ~t.listener }
    /\ pop = StoredResume
    /\ ops = [ o \in Ops |-> FreshOp ]
    /\ CfgIdle
    /\ PageIdle
    /\ PureIdle

BusyNext ==
    \/ \E o \in Ops, kind \in {"single", "bulk"} : Click(o, kind)
    \/ Render
    \/ SendSteps
    \/ \E url \in {tab.url, "none"}, listener \in BOOLEAN : TabChanges(url, listener)

BusyFrame == UNCHANGED <<cfgVars, pageVars, pureVars>>

\* What the platform owes a run that has started: chrome.tabs.query and
\* chrome.scripting.executeScript settle, the timer of withTimeout
\* (part_001:18-19) and the 400 ms timer of wait (part_001:46) fire.
Settles(o) ==
    \/ TabsQueryReturns(o)
    \/ TimeoutFires(o)
    \/ InjectDone(o) \/ InjectFails(o)
    \/ SettleDone(o)

\* The user, the tab and its listener owe nothing: no click has to come, no
\* message has to be delivered or answered, the tab may reload or close.
BusySpec ==
    /\ BusyInit
    /\ [][BusyNext /\ BusyFrame]_vars
    /\ \A o \in Ops : WF_vars(Settles(o) /\ BusyFrame)

\* The content script on any posting, asked for the job details.
ScrapeInit ==
    /\ dom \in { d \in [Buttons -> ElemStates] : d["apply"] = "absent" /\ d["submit"] = "absent" }
    /\ doc \in Pages
    /\ wreq = [ s \in Scrapes |-> FreshReq ]
    /\ ContentIdle
    /\ WatchIdle
    /\ PopupIdle
    /\ CfgIdle
    /\ PureIdle

GetJobDetails == Msg("getJobDetails", "undefined", "undefined")

ScrapeNext ==
    \/ \E r \in Req : Deliver(r, GetJobDetails) /\ UNCHANGED pageVars
    \/ \E r \in Req : ExpandTimer(r) /\ UNCHANGED pageVars
    \/ \E e \in ElemStates : PageMutates("seeMore", e) /\ UNCHANGED pageVars
    \/ DescriptionExpands

ScrapeSpec ==
    ScrapeInit /\ [][ScrapeNext /\ UNCHANGED <<watchVars, popupVars, cfgVars, pureVars>>]_vars

\* findElement called with any selector list on any document.
LocatorInit ==
    /\ arg \in [selectors : SeqsUpTo(Selectors, MaxSelectors), qs : QueryResults]
    /\ out = Pending
    /\ dom = [b \in Buttons |-> "absent"]
    /\ ContentIdle
    /\ WatchIdle
    /\ PopupIdle
    /\ CfgIdle
    /\ PageIdle

LocatorSpec ==
    LocatorInit /\ [][Locate /\ UNCHANGED <<watchVars, popupVars, cfgVars>>]_vars

\* getSafeText called with null or with an element of any text.
NormalizerInit ==
    /\ arg \in {NoElement} \cup { Elem(t) : t \in SeqsUpTo(Chars, MaxLen) }
    /\ out = Pending
    /\ dom = [b \in Buttons |-> "absent"]
    /\ ContentIdle
    /\ WatchIdle
    /\ PopupIdle
    /\ CfgIdle
    /\ PageIdle

NormalizerSpec ==
    NormalizerInit /\ [][Normalize /\ UNCHANGED <<watchVars, popupVars, cfgVars>>]_vars

\* The content script with its observer connected, asked to apply while the
\* page changes.
ObserverInit ==
    /\ dom \in [Buttons -> ElemStates]
    /\ ContentIdle
    /\ WatchIdle
    /\ PopupIdle
    /\ CfgIdle
    /\ PageIdle
    /\ PureIdle

ApplyToJob == Msg("applyToJob", "undefined", "undefined")

ObserverNext ==
    \/ \E r \in Req : Deliver(r, ApplyToJob) /\ UNCHANGED pageVars
    \/ \E r \in Req : HATimer(r) /\ UNCHANGED pageVars
    \/ \E s \in Scrapes, b \in Buttons, e \in ElemStates : ObservedMutation(s, b, e)
    \/ \E b \in Buttons, e \in ElemStates : StyleMutation(b, e)
    \/ \E s \in Scrapes : ScrapeTimer(s)

ObserverSpec ==
    ObserverInit /\ [][ObserverNext /\ UNCHANGED <<watchVars, popupVars, cfgVars, pureVars>>]_vars

\* The content script with its observer connected on a page that answers the
\* see-more click; nothing is asked of the script.
QuiesceInit ==
    /\ dom \in { d \in [Buttons -> ElemStates] : d["apply"] = "absent" /\ d["submit"] = "absent" }
    /\ doc \in { p \in Pages : p.href = <<"u", "v">> /\ \A f \in Parts \ {"description"} : p.els[f] = NoElement }
    /\ wreq = [ s \in Scrapes |-> FreshReq ]
    /\ ContentIdle
    /\ WatchIdle
    /\ PopupIdle
    /\ CfgIdle
    /\ PureIdle

QuiesceNext ==
    \/ \E s \in Scrapes, e \in ElemStates : ExternalMutation(s, "seeMore", e)
    \/ \E t, s \in Scrapes, r \in Reactions : ClickAnswered(t, s, r)
    \/ \E s \in Scrapes : ScrapeTimer(s)

QuiesceFrame == UNCHANGED <<watchVars, popupVars, cfgVars, pureVars>>

\* The 500 ms timer of every extraction fires (content.js:86) and the page
\* comes back to every click, with or without a change of the child list.
\* The page owes no change of its own.
QuiesceSpec ==
    /\ QuiesceInit
    /\ [][QuiesceNext /\ QuiesceFrame]_vars
    /\ \A s \in Scrapes : WF_vars(ScrapeTimer(s) /\ QuiesceFrame)
    /\ \A t \in Scrapes : WF_vars((\E s \in Scrapes, r \in Reactions : ClickAnswered(t, s, r)) /\ QuiesceFrame)

\* The popup is opened at any time, in any zone, over any persisted appState.
CfgInit ==
    /\ appState \in StoredStates
    /\ cfg = DefaultCfg
    /\ view \in { [CfgIdleView EXCEPT !.now = t, !.tz = z] : t \in Instants, z \in Zones }
    /\ dom = [b \in Buttons |-> "absent"]
    /\ ContentIdle
    /\ WatchIdle
    /\ PopupIdle
    /\ PageIdle
    /\ PureIdle

CfgSpec == CfgInit /\ [][CfgNext /\ UNCHANGED <<pageVars, pureVars>>]_vars

WatchSpec == WatchInit /\ [][WatchNext /\ UNCHANGED <<pageVars, pureVars>>]_vars

\* Everything request r is waiting for: a timer fires, and a platform promise
\* or a FileReader settles one way or the other.
ContentStep(r) ==
    \/ HATimer(r) \/ ExpandTimer(r)
    \/ PdfImportOk(r) \/ PdfImportFail(r)
    \/ ReaderLoad(r) \/ ReaderError(r)
    \/ ParseOk(r) \/ ParseFail(r)

\* Timers fire and platform operations settle; the page and the senders of
\* messages owe nothing.
FairContentSpec == ContentSpec /\ \A r \in Req : WF_vars(ContentStep(r) /\ ContentFrame)

\* ---------------------------------------------------------------- claims
IsApplyRun(r) == req[r].msg.action = "applyToJob" /\ req[r].st # "none"
Finished(r) == req[r].st = "responded"
FailedAtStep0(r) ==
    IsApplyRun(r) /\ Finished(r) /\ req[r].result = Err("Apply button not found")

C2_StepOrdering ==
    \A r \in Req : IsApplyRun(r) =>
        /\ req[r].clkApply = 0 => req[r].locSubmit = 0 /\ req[r].clkSubmit = 0
        /\ req[r].locSubmit > 0 => req[r].clkApply = 1 /\ req[r].waited
        /\ req[r].clkSubmit > 0 => req[r].locSubmit > 0

C2_Witness ==
    /\ \E r \in Req : IsApplyRun(r) /\ req[r].locSubmit = 1 /\ req[r].clkApply = 1
    /\ \E r \in Req : FailedAtStep0(r) /\ req[r].locSubmit = 0

\* C3: a run of handleApplication that clicked the apply button never hangs:
\* until it has answered, its 2000 ms timer is pending and the turn that timer
\* starts ends the run; when no submit button was in the document at any time
\* of the run, the outcome is one {error: string} response, never success.
C3_ApplyNeverHangs ==
    \A r \in Req : IsApplyRun(r) =>
        /\ Finished(r) \/ ENABLED (HATimer(r) /\ req'[r].st = "responded"
                                   /\ ContentFrame)
        /\ Finished(r) /\ req[r].clkApply = 1 /\ ~req[r].sawSubmit
             => req[r].result.kind = "error" /\ req[r].nResp = 1

\* C3, as a liveness property of FairContentSpec: a run that waits for the
\* submit button eventually answers.
C3_EventuallyAnswered ==
    \A r \in Req : (req[r].st = "applyWait") ~> Finished(r)

C3_Witness ==
    \E r \in Req :
        /\ IsApplyRun(r) /\ Finished(r)
        /\ req[r].clkApply = 1 /\ ~req[r].sawSubmit
        /\ req[r].result = Err("Submission failed")

\* C4: every request delivered to the content-script listener eventually
\* receives its response, and never more than one.
C4_EveryRequestAnswered ==
    /\ \A r \in Req : (req[r].st # "none") ~> (req[r].nResp = 1)
    /\ [](\A r \in Req : req[r].nResp <= 1)

\* C5: an AUTO_APPLY request sent by the popup is dispatched by the content
\* script's listener to handleApplication: the run locates the apply button, and
\* the response is {success: true} exactly when the apply button and then the
\* submit button were clicked, and an {error: string} otherwise.
C5_AutoApplyReachesSequencer ==
    \A r \in Req :
        req[r].viaPopup /\ req[r].msg.type = "AUTO_APPLY" /\ Finished(r) =>
            /\ req[r].locApply = 1
            /\ req[r].result.kind \in {"success", "error"}
            /\ req[r].result = Success <=> (req[r].clkApply = 1 /\ req[r].clkSubmit = 1)

\* C6: whenever an apply operation started from the popup has ended in failure
\* (an {error: msg} answer, a transport error, the timeout), the popup has
\* shown that message in an alert.
C6_FailureShownVerbatim ==
    \A o \in Ops :
        ops[o].pc = "done" /\ ops[o].failure # "" => ops[o].alert = ops[o].failure

\* C9: within one top-level sendToTab call the content script is injected at
\* most once and the message sent at most twice; injection and the second send
\* happen only after a first delivery that failed with 'Receiving end does not
\* exist'; any other first failure, and any failure of the second delivery, ends
\* the call and is what the caller receives.
C9_InjectionRetryBounded ==
    \A o \in Ops :
        LET op == ops[o] IN
        /\ op.nInject <= 1 /\ op.nSend <= 2 /\ Len(op.errs) <= op.nSend
        /\ op.nSend = 2 => op.nInject = 1
        /\ op.nInject = 1 => Len(op.errs) >= 1 /\ MatchesNoReceiver(op.errs[1])
        /\ Len(op.errs) >= 1 /\ ~MatchesNoReceiver(op.errs[1]) =>
             /\ op.pc = "done" /\ op.nSend = 1 /\ op.nInject = 0
             /\ op.failure = op.errs[1]
        /\ Len(op.errs) = 2 => op.pc = "done" /\ op.failure = op.errs[2]

C9_Witness ==
    \E o \in Ops :
        /\ ops[o].pc = "done"
        /\ ops[o].nInject = 1 /\ ops[o].nSend = 2
        /\ ops[o].errs = <<NoReceiverError, TimeoutError>>
        /\ ops[o].failure = TimeoutError

\* C7: for one attemptAutoApply invocation, under every interleaving of
\* mutation callbacks and the fallback timer, the apply button is clicked at
\* most once, the callback never runs after a disconnect(), and a second
\* disconnect() (match, then fallback timer) leaves the observer as the first
\* one left it: disconnected, with no queued records.
C7_CancelIdempotent ==
    /\ w.clicks <= 1
    /\ ~w.ranCancelled
    /\ w.nDisconnect <= 2
    /\ w.nDisconnect >= 1 => w.observer = "disconnected" /\ ~w.pending
    /\ w.clicks = 1 => w.nDisconnect >= 1

C7_Witness == w.nDisconnect = 2 /\ w.clicks = 1 /\ w.fallback = "fired"

\* C8: a started watcher always has its 10000 ms fallback timer pending; once
\* that timer has fired the observer is disconnected with no queued records,
\* and no later mutation of the document makes this invocation click.
C8_FallbackCancels ==
    /\ w.observer = "observing" => w.fallback = "armed"
    /\ w.fallback = "fired" =>
         /\ w.observer = "disconnected"
         /\ ~w.pending
         /\ ~w.clickedLate

C8_Witness ==
    /\ w.fallback = "fired"
    /\ w.clicks = 0
    /\ w.mutatedLate
    /\ dom["apply"] = "visible"

\* C10: hydrating from a persisted appState whose lastApplied falls on another
\* calendar date than today sets remainingApplications to the stored
\* numApplications and creditsLeft to 10; when lastApplied falls on today's
\* date both counters keep their stored values.
C10_DailyReset ==
    ~view.loading /\ view.read.lastApplied.kind = "iso" =>
        IF ToDateString(view.read.lastApplied.t, view.tz) # ToDateString(view.readAt, view.tz)
        THEN /\ cfg.remainingApplications = view.read.numApplications
             /\ cfg.creditsLeft = DailyCredits
        ELSE /\ cfg.remainingApplications = view.read.remainingApplications
             /\ cfg.creditsLeft = view.read.creditsLeft

\* Yesterday's lastApplied with used-up counters, and the counters reset.
C10_Witness ==
    /\ ~view.loading
    /\ view.read.lastApplied.kind = "iso"
    /\ ToDateString(view.read.lastApplied.t, view.tz).day + 1
         = ToDateString(view.readAt, view.tz).day
    /\ view.read.remainingApplications = 0 /\ view.read.creditsLeft = 0
    /\ cfg.remainingApplications = 3 /\ cfg.creditsLeft = DailyCredits

\* ------------------------------------------------------------------ C11
IsScrapeRun(q) == q.msg.action = "getJobDetails" /\ q.st # "none"
RecordFields == {"title", "company", "location", "description", "url", "postedDate"}
CompleteRecord(res) ==
    /\ res.kind = "job"
    /\ res.error = ""
    /\ DOMAIN res.details = RecordFields

\* C11: expanding is best-effort.  scrapeJobDetails started on a document with
\* no see-more button clicks nothing and returns, in that turn, a job record
\* with all its fields and no error.  Started on a document with the button it
\* clicks the button once and returns nothing yet; the record is built when
\* the settle delay has passed, from the document as it is then.
C11_ExpandBestEffort ==
    [][\A r \in Req :
          /\ (req[r].st = "none" /\ IsScrapeRun(req'[r])) =>
                IF dom["seeMore"] = "absent"
                THEN /\ req'[r].clkSeeMore = 0
                     /\ req'[r].st = "responded"
                     /\ CompleteRecord(req'[r].result)
                     /\ req'[r].result.details = ScrapedDetails(doc)
                ELSE /\ req'[r].clkSeeMore = 1
                     /\ req'[r].st = "expandWait"
                     /\ req'[r].result = NoResult
                     /\ ~req'[r].waited
          /\ (IsScrapeRun(req[r]) /\ req'[r] # req[r]) =>
                /\ req[r].st = "expandWait"
                /\ req'[r].clkSeeMore = 1
                /\ req'[r].waited
                /\ req'[r].st = "responded"
                /\ CompleteRecord(req'[r].result)
                /\ req'[r].result.details = ScrapedDetails(doc)
      ]_vars

\* One extraction returned its record without a click, another clicked once,
\* waited, and read a description that the page expanded after the click.
C11_Witness ==
    \E r, t \in Req :
        /\ IsScrapeRun(req[r]) /\ req[r].clkSeeMore = 0
        /\ CompleteRecord(req[r].result)
        /\ IsScrapeRun(req[t]) /\ req[t].clkSeeMore = 1 /\ req[t].waited
        /\ CompleteRecord(req[t].result)
        /\ req[t].result.details.description # req[r].result.details.description

\* ------------------------------------------------------------------ C12
\* The parts of the document a field of the record is read from.
SourcesOf(field) ==
    IF field = "description" THEN {"description", "details", "skills"} ELSE {field}

Unmatched(field) == \A f \in SourcesOf(field) : doc.els[f].kind = "null"

\* C12 (as stated): in every job record scrapeJobDetails returns, each of
\* title, company, location, description and postedDate for which no selector
\* matches an element is the empty string.
C12_UnmatchedFieldsEmpty ==
    \A r \in Req : (IsScrapeRun(req[r]) /\ req[r].st = "responded") =>
        \A field \in RecordFields \ {"url"} :
            Unmatched(field) => req[r].result.details[field] = <<>>

\* ------------------------------------------------------------------ C13
IsPrefix(p, t) == Len(p) <= Len(t) /\ SubSeq(t, 1, Len(p)) = p

\* The scenario's document: a title element, no company element, no location
\* element, a description element.
ScenarioPage ==
    /\ doc.els["title"].kind = "elem"
    /\ doc.els["company"].kind = "null"
    /\ doc.els["location"].kind = "null"
    /\ doc.els["description"].kind = "elem"

\* The title and the description texts of the postings, normalized by hand.
NormalTitle == <<"a", " ", "b">>
NormalDescriptions == { <<"a">>, <<"a", " ", "a", "b", " ", "b">> }
NormalDetails == IF doc.els["details"].kind = "elem" THEN <<"b">> ELSE <<>>
NormalSkills == IF doc.els["skills"].kind = "elem" THEN <<"b", "b">> ELSE <<>>

\* url is the page address up to, and without, its first '?'.
QueryStripped(url) ==
    /\ IsPrefix(url, doc.href)
    /\ \A i \in 1 .. Len(url) : url[i] # "?"
    /\ url # doc.href => doc.href[Len(url) + 1] = "?"

ScenarioFields(d) ==
    /\ d.title = NormalTitle
    /\ d.company = <<>>
    /\ d.location = <<>>
    /\ \E t \in NormalDescriptions : IsPrefix(t, d.description)
    /\ QueryStripped(d.url)

MatchingAt == { i \in 1 .. Len(arg.selectors) : arg.qs[arg.selectors[i]] # "null" }

\* C14: findElement returns the node matched by the earliest selector of the
\* list that matches anything, never the match of a later selector when an
\* earlier one matches, and returns null when no selector of the list matches,
\* the empty list included.
C14_EarliestMatch ==
    out.done =>
        IF MatchingAt = {}
        THEN out.value = <<"null">>
        ELSE \E i \in MatchingAt :
                /\ \A j \in MatchingAt : i <= j
                /\ out.value = <<arg.qs[arg.selectors[i]]>>

\* findElement returned the match of the second selector of a list whose
\* first selector matches nothing and whose third matches another node.
C14_Witness ==
    /\ out.done
    /\ Len(arg.selectors) = 3
    /\ MatchingAt = {2, 3}
    /\ arg.qs[arg.selectors[2]] # arg.qs[arg.selectors[3]]
    /\ out.value = <<arg.qs[arg.selectors[2]]>>

\* ------------------------------------------------------------------ C15
NoLetter(t) == \A i \in 1 .. Len(t) : IsWs(t[i])

\* C15: getSafeText returns a string with no two adjacent white-space
\* characters and no white space at either end; it returns the empty string
\* for null and for an element whose text is empty or all white space; the
\* letters of the text come back in their order, each run of white space
\* between them as one space.  It returns for every argument.
C15_Normalized ==
    /\ ~out.done => ENABLED Normalize
    /\ out.done =>
          LET t == out.value IN
          /\ \A i \in 1 .. Len(t) - 1 : ~(IsWs(t[i]) /\ IsWs(t[i + 1]))
          /\ t # <<>> => ~IsWs(t[1]) /\ ~IsWs(t[Len(t)])
          /\ \A i \in 1 .. Len(t) : IsWs(t[i]) => t[i] = " "
          /\ (arg.kind = "null" \/ NoLetter(arg.text)) => t = <<>>
          /\ arg.kind = "elem" =>
                SelectSeq(t, LAMBDA c : ~IsWs(c)) = SelectSeq(arg.text, LAMBDA c : ~IsWs(c))

\* getSafeText returned "a b" for a text with a space and a line break
\* between its two letters.
C15_Witness ==
    /\ out.done
    /\ arg = Elem(<<"a", " ", "\n", "b">>)
    /\ out.value = <<"a", " ", "b">>

\* ------------------------------------------------------------------ C16
\* C16 (as stated): while an apply sequence is in flight, between its start and
\* its outcome, no extraction started by the persistent observer clicks the
\* see-more button.
C16_NoExpandClickDuringApply ==
    \A s \in Scrapes : ~(wreq[s].duringApply /\ wreq[s].clkSeeMore > 0)

\* ------------------------------------------------------------------ C17
ExtractionsInFlight == { s \in Scrapes : wreq[s].st = "expandWait" }

\* C17 (as stated): at most one extraction started by the persistent observer
\* is in flight at any time; a firing that arrives while one is in progress
\* starts no other.
C17_OneExtractionInFlight == Cardinality(ExtractionsInFlight) <= 1

\* ------------------------------------------------------------------ C18
\* C18 (as stated): in every run of the apply sequence and of the expand step,
\* an element that is in the document but not rendered is never clicked.
C18_NeverClicksUnrendered ==
    \A r \in Req : req[r].hiddenClicks = 0

\* ------------------------------------------------------------------ C19
\* The stored match score as a number; a missing one counts 0 (part_000:44).
StoredMatchScore == IF storage.matchScore.def THEN storage.matchScore.n ELSE 0

\* C19 (as stated): the page-load flow clicks an apply button only if autoApply
\* is enabled and the stored match score is >= the minScore it compares with;
\* that minScore is the stored value for every stored integer in 0..100, and
\* 75 when none is stored.
C19_ThresholdGate ==
    /\ w.clicks > 0 =>
          /\ storage.autoApply = "true"
          /\ StoredMatchScore >= w.minScore
    /\ w.phase = "attempted" =>
          w.minScore = IF storage.minScore.def THEN storage.minScore.n ELSE 75

\* ------------------------------------------------------------------ C20
\* A run of onApply or onAutoApplyPage between its click and its finally block.
InFlight == { o \in Ops : ops[o].pc \in {"query", "send", "inject", "settle"} }

\* C20 (as stated): under any interleaving of clicks on the two buttons at
\* most one apply request from the popup is in flight at any time, and no
\* request is sent while no résumé text is loaded.
C20_OneRequestAndResumeLoaded ==
    /\ Cardinality(InFlight) <= 1
    /\ \A o \in Ops : ops[o].nSend > 0 => ops[o].resumeAtSend = "text"

\* C20 (amended): at most one apply request from the popup is in flight at any
\* time; a request is sent only by a handler whose closure held résumé text
\* when it was clicked, and only while some résumé is loaded.  A handler that
\* read no résumé text sends nothing, takes no busy flag and alerts.
C20_OneRequestAndResumeRead ==
    /\ Cardinality(InFlight) <= 1
    /\ \A o \in Ops :
          /\ ops[o].nSend > 0 => ops[o].resumeRead = "text" /\ ops[o].resumeAtSend # "none"
          /\ o \in InFlight => ops[o].resumeRead = "text"
          /\ (ops[o].pc # "idle" /\ ops[o].resumeRead # "text") =>
                /\ ops[o].pc = "done"
                /\ ops[o].nSend = 0
                /\ ops[o].alert = "Upload your résumé first"
    /\ (pop.busy \/ pop.bulkBusy) => Cardinality(InFlight) = 1
    /\ ~(pop.busy /\ pop.bulkBusy)

\* One run has ended and its busy flag is released but not yet rendered, while
\* a second run, of the other button, has sent its request.
C20_Witness ==
    \E o, k \in Ops :
        /\ ops[o].pc = "done" /\ ops[o].nSend > 0
        /\ ops[k].pc = "send" /\ ops[k].kind # ops[o].kind
        /\ ops[k].resumeRead = "text"

\* ------------------------------------------------------------------ C21
\* The runs of one handler that are between their click and their finally.
Holding(kind) == { o \in InFlight : ops[o].kind = kind }

\* C21: the busy flags are always eventually released.  Every started run of
\* onApply or onAutoApplyPage comes to its end, whether the tab is the wrong
\* one, the message is answered, fails in transport, or is never answered and
\* the timeout fires; and a flag is set only while a run of its handler is
\* between its click and its end, so the end of the run releases it.
C21_BusyReleased ==
    /\ [](pop.busy => Holding("single") # {})
    /\ [](pop.bulkBusy => Holding("bulk") # {})
    /\ \A o \in Ops : (o \in InFlight) ~> (ops[o].pc = "done")

\* A run whose message was delivered and not answered in time has ended with
\* 'Timeout' and both flags are down.
C21_Witness ==
    \E o \in Ops :
        /\ ops[o].pc = "done"
        /\ ops[o].delivered
        /\ ops[o].failure = TimeoutError
        /\ ~pop.busy /\ ~pop.bulkBusy

\* ------------------------------------------------------------------ C22
\* No extraction of the observer is waiting on its timer and no see-more click
\* is waiting for the page.
Quiescent ==
    \A s \in Scrapes : wreq[s].st # "expandWait" /\ ~wreq[s].unanswered

\* C22 (as stated): after the finitely many mutation batches the page makes on
\* its own, the content script comes to rest and stays at rest: the extraction
\* the observer starts does not set itself off again without end through the
\* see-more click of its expand step.
C22_WatcherQuiesces == <>[]Quiescent

====
